---- MODULE Spec2Model ----
(***************************************************************************)
(* A model of src/guru99/EmissionsAnalyzer.py: the class AnalysisCSV       *)
(* (get_file, __init__, get_year, get_country, extract_to_file,            *)
(* analyze_year, verify_structure) over a filesystem of CSV files.         *)
(*                                                                         *)
(* A Python str is a sequence of one-character strings, so that strip,     *)
(* title, replace, split, splitext, int, float and the csv reader and      *)
(* writer are computed character by character, as the interpreter does.    *)
(***************************************************************************)
EXTENDS Integers, Sequences, FiniteSets, TLC

(***************************************************************************)
(* Bounds of the model.                                                    *)
(***************************************************************************)
\* longest raw file text of SpecCsv
MaxText == 6
\* most names on one typed line of country names (SpecSelect, SpecExtract)
MaxItems == 2
\* most country rows of a generated table
MaxRows == 2
\* most country rows of a generated table of SpecAnalyze
MaxCountries == 3
\* most year columns of a generated header (SpecYear)
MaxCols == 3
\* most files the filesystem may hold before extraction stops being offered
MaxFiles == 5
\* most pieces of a typed file name (SpecFiles)
MaxNamePieces == 3
\* largest numbered subset file present before the program runs (SpecFiles)
MaxSuffix == 2
\* most value columns of a generated table of SpecVerify
VerifyCols == 2
\* largest num argument passed to get_country
MaxNum == 3

(***************************************************************************)
(* Characters.                                                             *)
(***************************************************************************)
Lowers == <<"a", "b", "c", "d", "n", "s", "v">>
Uppers == <<"A", "B", "C", "D", "N", "S", "V">>
Digits == <<"0", "1", "2", "3", "4", "5", "6", "7", "8", "9">>

IndexIn(c, tbl) == IF \E i \in 1..Len(tbl) : tbl[i] = c
                   THEN CHOOSE i \in 1..Len(tbl) : tbl[i] = c
                   ELSE 0

IsLower(c) == IndexIn(c, Lowers) > 0
IsUpper(c) == IndexIn(c, Uppers) > 0
\* str.isalpha on one character
IsAlphaChar(c) == IsLower(c) \/ IsUpper(c)
IsDigit(c) == IndexIn(c, Digits) > 0
DigitVal(c) == IndexIn(c, Digits) - 1
\* the characters str.strip() removes
IsSpace(c) == c \in {" ", "\t", "\n", "\r"}

ToUpper(c) == IF IsLower(c) THEN Uppers[IndexIn(c, Lowers)] ELSE c
ToLower(c) == IF IsUpper(c) THEN Lowers[IndexIn(c, Uppers)] ELSE c

(***************************************************************************)
(* str methods.                                                            *)
(***************************************************************************)
\* str.lower()
StrLower(s) == [i \in 1..Len(s) |-> ToLower(s[i])]

\* s.startswith(p) at offset i (1-based)
MatchAt(s, i, p) == /\ i + Len(p) - 1 <= Len(s)
                    /\ \A j \in 1..Len(p) : s[i + j - 1] = p[j]

\* str.endswith(suffix)
EndsWith(s, suffix) == /\ Len(suffix) <= Len(s)
                       /\ MatchAt(s, Len(s) - Len(suffix) + 1, suffix)

\* str.strip(): drop leading and trailing whitespace
RECURSIVE LStrip(_)
LStrip(s) == IF s # <<>> /\ IsSpace(Head(s)) THEN LStrip(Tail(s)) ELSE s
RECURSIVE RStrip(_)
RStrip(s) == IF s # <<>> /\ IsSpace(s[Len(s)])
             THEN RStrip(SubSeq(s, 1, Len(s) - 1)) ELSE s
Strip(s) == RStrip(LStrip(s))

\* str.title(): a cased character is upper-cased when the previous character
\* is not cased and lower-cased when it is
RECURSIVE TitleFrom(_, _)
TitleFrom(s, prevCased) ==
    IF s = <<>> THEN <<>>
    ELSE LET c == Head(s)
         IN  <<IF prevCased THEN ToLower(c) ELSE ToUpper(c)>>
                 \o TitleFrom(Tail(s), IsAlphaChar(c))
Title(s) == TitleFrom(s, FALSE)

\* str.replace(old, new) for a non-empty old: every non-overlapping
\* occurrence, scanning from the left
RECURSIVE Replace(_, _, _)
Replace(s, old, new) ==
    IF s = <<>> THEN <<>>
    ELSE IF MatchAt(s, 1, old)
         THEN new \o Replace(SubSeq(s, Len(old) + 1, Len(s)), old, new)
         ELSE <<Head(s)>> \o Replace(Tail(s), old, new)

\* str.split(sep) for a one-character sep: always at least one item
RECURSIVE SplitFrom(_, _, _)
SplitFrom(s, sep, cur) ==
    IF s = <<>> THEN <<cur>>
    ELSE IF Head(s) = sep THEN <<cur>> \o SplitFrom(Tail(s), sep, <<>>)
         ELSE SplitFrom(Tail(s), sep, Append(cur, Head(s)))
Split(s, sep) == SplitFrom(s, sep, <<>>)

\* str.translate(str.maketrans("", "", chars)): delete the characters
RECURSIVE DeleteChars(_, _)
DeleteChars(s, chars) ==
    IF s = <<>> THEN <<>>
    ELSE IF Head(s) \in chars THEN DeleteChars(Tail(s), chars)
         ELSE <<Head(s)>> \o DeleteChars(Tail(s), chars)

\* str.isalpha(): non-empty and every character alphabetic
IsAlpha(s) == s # <<>> /\ \A i \in 1..Len(s) : IsAlphaChar(s[i])

\* str.rfind of one character: the last index, 0 when absent
RFind(s, c) == IF \E i \in 1..Len(s) : s[i] = c
               THEN CHOOSE i \in 1..Len(s) :
                        s[i] = c /\ \A j \in (i + 1)..Len(s) : s[j] # c
               ELSE 0

\* the concatenation of a sequence of strings
RECURSIVE Concat(_)
Concat(ss) == IF ss = <<>> THEN <<>> ELSE Head(ss) \o Concat(Tail(ss))

\* all sequences over S of length at most n
SeqsUpTo(S, n) == UNION {[1..k -> S] : k \in 0..n}

\* the set of elements of a sequence
Range(s) == {s[i] : i \in 1..Len(s)}

(***************************************************************************)
(* int(str) and float(str).                                                *)
(***************************************************************************)
\* digits, with single underscores allowed between digits
IsDigitGroup(s) ==
    /\ s # <<>>
    /\ IsDigit(s[1]) /\ IsDigit(s[Len(s)])
    /\ \A i \in 1..Len(s) : IsDigit(s[i]) \/ s[i] = "_"
    /\ \A i \in 1..(Len(s) - 1) : ~(s[i] = "_" /\ s[i + 1] = "_")

RECURSIVE DigitsValue(_, _)
DigitsValue(s, acc) ==
    IF s = <<>> THEN acc
    ELSE IF Head(s) = "_" THEN DigitsValue(Tail(s), acc)
         ELSE DigitsValue(Tail(s), 10 * acc + DigitVal(Head(s)))

HasSign(s) == s # <<>> /\ Head(s) \in {"+", "-"}
Unsigned(s) == IF HasSign(s) THEN Tail(s) ELSE s
SignOf(s) == IF s # <<>> /\ Head(s) = "-" THEN -1 ELSE 1

\* int(s) does not raise ValueError
IntOk(s) == IsDigitGroup(Unsigned(Strip(s)))
\* int(s), when IntOk(s)
IntValue(s) == SignOf(Strip(s)) * DigitsValue(Unsigned(Strip(s)), 0)

\* str(n) for an integer n
RECURSIVE NatStr(_)
NatStr(n) == IF n < 10 THEN <<Digits[n + 1]>>
             ELSE NatStr(n \div 10) \o <<Digits[(n % 10) + 1]>>
IntStr(n) == IF n < 0 THEN <<"-">> \o NatStr(-n) ELSE NatStr(n)

\* float(s) does not raise ValueError, for decimal text without exponent
DotAt(s) == IndexIn(".", s)
IntPart(s) == IF DotAt(s) = 0 THEN s ELSE SubSeq(s, 1, DotAt(s) - 1)
FracPart(s) == IF DotAt(s) = 0 THEN <<>> ELSE SubSeq(s, DotAt(s) + 1, Len(s))
FloatOk(s) ==
    LET u == Unsigned(Strip(s))
    IN  /\ IntPart(u) = <<>> \/ IsDigitGroup(IntPart(u))
        /\ FracPart(u) = <<>> \/ IsDigitGroup(FracPart(u))
        /\ IntPart(u) # <<>> \/ FracPart(u) # <<>>

\* float(s) in hundredths, exact for text with at most two fraction digits
FracHundredths(f) ==
    LET d == SelectSeq(f, IsDigit)
    IN  IF d = <<>> THEN 0
        ELSE IF Len(d) = 1 THEN 10 * DigitVal(d[1])
        ELSE 10 * DigitVal(d[1]) + DigitVal(d[2])
FloatValue(s) ==
    LET u == Unsigned(Strip(s))
    IN  SignOf(Strip(s)) * (100 * DigitsValue(IntPart(u), 0) + FracHundredths(FracPart(u)))

(***************************************************************************)
(* os.path.splitext and os.path.exists.                                    *)
(***************************************************************************)
\* genericpath._splitext: the extension starts at the last dot of the last
\* path component, unless only dots precede it in that component
SplitextAt(p) ==
    LET sepIndex == RFind(p, "/")
        dotIndex == RFind(p, ".")
    IN  IF /\ dotIndex > sepIndex
           /\ \E k \in (sepIndex + 1)..(dotIndex - 1) : p[k] # "."
        THEN dotIndex
        ELSE Len(p) + 1
SplitextName(p) == SubSeq(p, 1, SplitextAt(p) - 1)
SplitextExt(p) == SubSeq(p, SplitextAt(p), Len(p))

(***************************************************************************)
(* csv.writer, default (excel) dialect: delimiter ',', quotechar '"',      *)
(* doublequote, QUOTE_MINIMAL, lineterminator "\r\n".                      *)
(***************************************************************************)
NeedsQuote(f) == \E i \in 1..Len(f) : f[i] \in {",", "\"", "\r", "\n"}

RECURSIVE DoubleQuotes(_)
DoubleQuotes(f) ==
    IF f = <<>> THEN <<>>
    ELSE IF Head(f) = "\"" THEN <<"\"", "\"">> \o DoubleQuotes(Tail(f))
         ELSE <<Head(f)>> \o DoubleQuotes(Tail(f))

\* a writer that joins the cells without quoting any of them
WriteField_Unquoted(f, alone) == f

WriteField(f, alone) ==
    IF NeedsQuote(f) \/ (alone /\ f = <<>>)
    THEN <<"\"">> \o DoubleQuotes(f) \o <<"\"">>
    ELSE f

RECURSIVE JoinFields(_, _)
JoinFields(row, alone) ==
    IF row = <<>> THEN <<>>
    ELSE IF Len(row) = 1 THEN WriteField(row[1], alone)
         ELSE WriteField(row[1], alone) \o <<",">> \o JoinFields(Tail(row), alone)

\* writer.writerow(row)
WriteRow(row) == JoinFields(row, Len(row) = 1) \o <<"\r", "\n">>

RECURSIVE WriteRows(_)
WriteRows(rows) == IF rows = <<>> THEN <<>>
                   ELSE WriteRow(Head(rows)) \o WriteRows(Tail(rows))

(***************************************************************************)
(* csv.reader over a file opened with newline="": the file yields its      *)
(* lines with their endings ("\n", "\r" or "\r\n") kept, the parser is fed *)
(* each character of a line and then an end-of-line event, and a record    *)
(* is complete when the parser is back in START_RECORD.                    *)
(***************************************************************************)
EOL == "EOL"

SaveField(p) == [p EXCEPT !.fields = Append(p.fields, p.field), !.field = <<>>]
AddChar(p, c) == [p EXCEPT !.field = Append(p.field, c)]
AfterLineEnd(c) == IF c = EOL THEN "START_RECORD" ELSE "EAT_CRNL"

\* _csv.c parse_process_char, for the default dialect
StartField(p, c) ==
    IF c \in {"\n", "\r", EOL}
    THEN [SaveField(p) EXCEPT !.state = AfterLineEnd(c)]
    ELSE IF c = "\"" THEN [p EXCEPT !.state = "IN_QUOTED_FIELD"]
    ELSE IF c = "," THEN SaveField(p)
    ELSE [AddChar(p, c) EXCEPT !.state = "IN_FIELD"]

ProcessChar(p, c) ==
    CASE p.state = "START_RECORD" ->
            IF c = EOL THEN p
            ELSE IF c \in {"\n", "\r"} THEN [p EXCEPT !.state = "EAT_CRNL"]
            ELSE StartField([p EXCEPT !.state = "START_FIELD"], c)
      [] p.state = "START_FIELD" -> StartField(p, c)
      [] p.state = "IN_FIELD" ->
            IF c \in {"\n", "\r", EOL}
            THEN [SaveField(p) EXCEPT !.state = AfterLineEnd(c)]
            ELSE IF c = "," THEN [SaveField(p) EXCEPT !.state = "START_FIELD"]
            ELSE AddChar(p, c)
      [] p.state = "IN_QUOTED_FIELD" ->
            IF c = EOL THEN p
            ELSE IF c = "\"" THEN [p EXCEPT !.state = "QUOTE_IN_QUOTED_FIELD"]
            ELSE AddChar(p, c)
      [] p.state = "QUOTE_IN_QUOTED_FIELD" ->
            IF c = "\"" THEN [AddChar(p, c) EXCEPT !.state = "IN_QUOTED_FIELD"]
            ELSE IF c = "," THEN [SaveField(p) EXCEPT !.state = "START_FIELD"]
            ELSE IF c \in {"\n", "\r", EOL}
                 THEN [SaveField(p) EXCEPT !.state = AfterLineEnd(c)]
            ELSE [AddChar(p, c) EXCEPT !.state = "IN_FIELD"]
      [] OTHER -> \* EAT_CRNL
            IF c = EOL THEN [p EXCEPT !.state = "START_RECORD"] ELSE p

\* the line of the file ends after character i
LineEndsAt(t, i) ==
    \/ i = Len(t)
    \/ t[i] = "\n"
    \/ t[i] = "\r" /\ t[i + 1] # "\n"

\* one pass of Reader_iternext's loop: the characters of the line that
\* starts at i, then the end-of-line event; next is where the next line starts
RECURSIVE FeedLine(_, _, _)
FeedLine(t, i, p) ==
    IF LineEndsAt(t, i)
    THEN [p |-> ProcessChar(ProcessChar(p, t[i]), EOL), next |-> i + 1]
    ELSE FeedLine(t, i + 1, ProcessChar(p, t[i]))

\* parse_reset
ParseReset == [state |-> "START_RECORD", field |-> <<>>, fields |-> <<>>]

\* Reader_iternext at the end of the file: a pending field is saved and the
\* record returned
AtEof(p, rows) ==
    IF p.field # <<>> \/ p.state = "IN_QUOTED_FIELD"
    THEN Append(rows, Append(p.fields, p.field))
    ELSE rows

\* Reader_iternext, called until the file is exhausted: lines are fed until
\* the parser is back in START_RECORD, and the fields are one record
RECURSIVE ReadFrom(_, _, _, _)
ReadFrom(t, i, p, rows) ==
    IF i > Len(t) THEN AtEof(p, rows)
    ELSE LET fed == FeedLine(t, i, p)
         IN  IF fed.p.state = "START_RECORD"
             THEN ReadFrom(t, fed.next, ParseReset, Append(rows, fed.p.fields))
             ELSE ReadFrom(t, fed.next, fed.p, rows)

\* list(csv.reader(csvfile))
ReadCsv(t) == ReadFrom(t, 1, ParseReset, <<>>)

(***************************************************************************)
(* A Python dict, which keeps insertion order: a sequence of <<key, value>> *)
(* pairs with distinct keys.                                               *)
(***************************************************************************)
DictKeys(d) == [i \in 1..Len(d) |-> d[i][1]]
DictHas(d, k) == \E i \in 1..Len(d) : d[i][1] = k
DictGet(d, k) == d[CHOOSE i \in 1..Len(d) : d[i][1] = k][2]
\* d[k] = v: an existing key keeps its place and takes the new value
DictSet(d, k, v) ==
    IF DictHas(d, k)
    THEN [i \in 1..Len(d) |-> IF d[i][1] = k THEN <<k, v>> ELSE d[i]]
    ELSE Append(d, <<k, v>>)

\* {row.pop(0): row for row in reader}
RECURSIVE DictOfRows(_, _)
DictOfRows(rows, d) ==
    IF rows = <<>> THEN d
    ELSE DictOfRows(Tail(rows), DictSet(d, Head(rows)[1], Tail(Head(rows))))

\* list.index(x): the first position of x, 0 when absent (ValueError)
ListIndex(l, x) == IF \E i \in 1..Len(l) : l[i] = x
                   THEN CHOOSE i \in 1..Len(l) :
                            l[i] = x /\ \A j \in 1..(i - 1) : l[j] # x
                   ELSE 0

SeqMin(l) == CHOOSE m \in Range(l) : \A v \in Range(l) : m <= v
SeqMax(l) == CHOOSE m \in Range(l) : \A v \in Range(l) : m >= v
RECURSIVE SeqSum(_)
SeqSum(l) == IF l = <<>> THEN 0 ELSE Head(l) + SeqSum(Tail(l))

(***************************************************************************)
(* The state: the filesystem, one AnalysisCSV object and the outcome of    *)
(* the last call.                                                          *)
(***************************************************************************)
VARIABLES
    fs,           \* the files: a function from file name to file text
    pc,           \* "start", "named" (get_file returned), "loaded", "crashed"
    filename,     \* self.filename
    data_dict,    \* self.data_dict
    countries,    \* self.countries
    first_key,    \* self.first_key
    first_value,  \* self.first_value
    last          \* the last call: its name, arguments and outcome

vars == <<fs, pc, filename, data_dict, countries, first_key, first_value, last>>
object == <<filename, data_dict, countries, first_key, first_value>>

Csv == <<".", "c", "s", "v">>
SubsetCsv == <<"_", "s", "u", "b", "s", "e", "t", ".", "c", "s", "v">>

exists(name) == name \in DOMAIN fs

InitWith(files) ==
    /\ fs = files
    /\ pc = "start"
    /\ filename = <<>>
    /\ data_dict = <<>>
    /\ countries = <<>>
    /\ first_key = <<>>
    /\ first_value = <<>>
    /\ last = [op |-> "none"]

(***************************************************************************)
(* get_file: one pass of the prompt loop on the typed line user_inp.       *)
(***************************************************************************)
\* the '.csv' extension is appended unless the name has it in any case
WithCsvExtension(user_inp) ==
    IF EndsWith(StrLower(user_inp), Csv) THEN user_inp ELSE user_inp \o Csv

get_file(user_inp) ==
    LET name == WithCsvExtension(user_inp)
    IN  /\ pc = "start"
        /\ IF ~exists(name)
           THEN /\ last' = [op |-> "get_file", accepted |-> FALSE,
                            why |-> "FileNotFoundError"]
                /\ pc' = pc
           ELSE IF Len(ReadCsv(fs[name])) < 2
           THEN /\ last' = [op |-> "get_file", accepted |-> FALSE,
                            why |-> "fewer than two rows"]
                /\ pc' = pc
           ELSE /\ last' = [op |-> "get_file", accepted |-> TRUE, ret |-> name]
                /\ pc' = "named"
        /\ UNCHANGED <<fs, object>>

(***************************************************************************)
(* __init__(filename), called on the name get_file returned.               *)
(***************************************************************************)
\* row.pop(0) raises IndexError on an empty row, and self.countries.pop(0)
\* on an empty key list
LoadRaises(rows) == rows = <<>> \/ \E i \in 1..Len(rows) : rows[i] = <<>>

\* the fields __init__ sets from the text of the file
LoadedTable(text) ==
    LET d == DictOfRows(ReadCsv(text), <<>>)
    IN  [data_dict |-> d,
         countries |-> Tail(DictKeys(d)),
         first_key |-> Head(DictKeys(d)),
         first_value |-> DictGet(d, Head(DictKeys(d)))]

init ==
    /\ pc = "named"
    /\ IF LoadRaises(ReadCsv(fs[last.ret]))
       THEN /\ pc' = "crashed"
            /\ filename' = last.ret
            /\ last' = [op |-> "__init__", raised |-> "IndexError"]
            /\ UNCHANGED <<data_dict, countries, first_key, first_value>>
       ELSE LET t == LoadedTable(fs[last.ret])
            IN  /\ pc' = "loaded"
                /\ filename' = last.ret
                /\ data_dict' = t.data_dict
                /\ countries' = t.countries
                /\ first_key' = t.first_key
                /\ first_value' = t.first_value
                /\ last' = [op |-> "__init__", raised |-> "none"]
    /\ UNCHANGED fs

(***************************************************************************)
(* get_year: one pass of the prompt loop on the typed line user_inp.       *)
(***************************************************************************)
\* int(self.first_value[0]) <= user_inp <= int(self.first_value[-1]): the
\* right comparison is evaluated only when the left one holds
YearCheck(y) ==
    IF first_value = <<>> THEN "IndexError"
    ELSE IF ~IntOk(first_value[1]) THEN "ValueError"
    ELSE IF ~(IntValue(first_value[1]) <= y) THEN "out-of-range"
    ELSE IF ~IntOk(first_value[Len(first_value)]) THEN "ValueError"
    ELSE IF ~(y <= IntValue(first_value[Len(first_value)])) THEN "out-of-range"
    ELSE "ok"

get_year(user_inp) ==
    /\ pc = "loaded"
    /\ IF ~IntOk(user_inp)
       THEN last' = [op |-> "get_year", user_inp |-> user_inp,
                     accepted |-> FALSE, raised |-> "none",
                     why |-> "not an integer"]
       ELSE LET y == IntValue(user_inp)
                c == YearCheck(y)
            IN  IF c = "ok"
                THEN last' = [op |-> "get_year", user_inp |-> user_inp,
                              accepted |-> TRUE, raised |-> "none", ret |-> y]
                ELSE IF c = "out-of-range"
                THEN last' = [op |-> "get_year", user_inp |-> user_inp,
                              accepted |-> FALSE, raised |-> "none", why |-> c]
                ELSE last' = [op |-> "get_year", user_inp |-> user_inp,
                              accepted |-> FALSE, raised |-> c]
    /\ UNCHANGED <<fs, pc, object>>

(***************************************************************************)
(* analyze_year(year), called on the year get_year returned.               *)
(***************************************************************************)
\* the keys the comprehension of year_values runs over
ValueKeys == SelectSeq(DictKeys(data_dict), LAMBDA k : k # first_key)

\* the first key, in order, whose cell raises, and what it raises
CellRaises(k, year_index) ==
    IF year_index > Len(DictGet(data_dict, k)) THEN "IndexError"
    ELSE IF ~FloatOk(DictGet(data_dict, k)[year_index]) THEN "ValueError"
    ELSE "none"

YearValuesRaise(year_index) ==
    LET bad == {i \in 1..Len(ValueKeys) :
                    CellRaises(ValueKeys[i], year_index) # "none"}
    IN  IF bad = {} THEN "none"
        ELSE CellRaises(ValueKeys[CHOOSE i \in bad : \A j \in bad : i <= j],
                        year_index)

YearValues(year_index) ==
    [i \in 1..Len(ValueKeys) |->
        FloatValue(DictGet(data_dict, ValueKeys[i])[year_index])]

\* the last position of the extreme value instead of the first
ExtremeIndex_Last(year_values, extreme) ==
    CHOOSE i \in 1..Len(year_values) :
        /\ year_values[i] = extreme
        /\ \A j \in (i + 1)..Len(year_values) : year_values[j] # extreme

\* the index self.countries is read at for an extreme value
ExtremeIndex(year_values, extreme) == ListIndex(year_values, extreme)

YearIndex(year) == ListIndex(DictGet(data_dict, first_key), IntStr(year))

analyze_year ==
    /\ pc = "loaded"
    /\ last.op = "get_year" /\ last.accepted
    /\ LET year == last.ret
           year_index == YearIndex(year)
       IN  IF year_index = 0
           THEN last' = [op |-> "analyze_year", year |-> year,
                         raised |-> "ValueError"]
           ELSE IF YearValuesRaise(year_index) # "none"
           THEN last' = [op |-> "analyze_year", year |-> year,
                         raised |-> YearValuesRaise(year_index)]
           ELSE IF ValueKeys = <<>>
           THEN last' = [op |-> "analyze_year", year |-> year,
                         raised |-> "ValueError"]
           ELSE LET year_values == YearValues(year_index)
                IN  last' = [op |-> "analyze_year", year |-> year,
                             raised |-> "none",
                             year_index |-> year_index,
                             min_country |->
                                 countries[ExtremeIndex(year_values, SeqMin(year_values))],
                             max_country |->
                                 countries[ExtremeIndex(year_values, SeqMax(year_values))],
                             total |-> SeqSum(year_values),
                             count |-> Len(year_values)]
    /\ UNCHANGED <<fs, pc, object>>

(***************************************************************************)
(* get_country: one pass of the prompt loop on the typed line user_inp.    *)
(***************************************************************************)
\* c.strip().title().replace(" And ", " and ").replace("D'", "d'")
Normalize(c) ==
    Replace(Replace(Title(Strip(c)), <<" ", "A", "n", "d", " ">>,
                                     <<" ", "a", "n", "d", " ">>),
            <<"D", "'">>, <<"d", "'">>)

CountOk(n, num, strict) == (strict /\ n = num) \/ (~strict /\ 0 < n /\ n <= num)

\* len(set(user_inp)) < user_inp_len
HasDuplicates(names) == Cardinality(Range(names)) < Len(names)

\* membership tested in self.data_dict, whose keys include the header label
AllKnown_InDict(names) == \A i \in 1..Len(names) : DictHas(data_dict, names[i])

\* all([c in self.countries for c in user_inp])
AllKnown(names) == \A i \in 1..Len(names) : names[i] \in Range(countries)

get_country(user_inp, num, strict) ==
    /\ pc = "loaded"
    /\ LET items == Split(user_inp, ",")
           names == [i \in 1..Len(items) |-> Normalize(items[i])]
           call == [op |-> "get_country", user_inp |-> user_inp,
                    num |-> num, strict |-> strict]
       IN  IF ~CountOk(Len(items), num, strict)
           THEN last' = call @@ [accepted |-> FALSE, why |-> "count"]
           ELSE IF HasDuplicates(names)
           THEN last' = call @@ [accepted |-> FALSE, why |-> "duplicate"]
           ELSE IF ~AllKnown(names)
           THEN last' = call @@ [accepted |-> FALSE, why |-> "unknown"]
           ELSE last' = call @@ [accepted |-> TRUE, ret |-> names]
    /\ UNCHANGED <<fs, pc, object>>

(***************************************************************************)
(* extract_to_file(countries_req, overwrite).                              *)
(***************************************************************************)
\* self.filename.replace(".csv", "_subset.csv")
SubsetName(name) == Replace(name, Csv, SubsetCsv)

\* while exists(subset_filename): counter += 1; f"{name}_{counter}{ext}"
RECURSIVE FreeName(_, _, _, _)
FreeName(subset_filename, name, ext, counter) ==
    IF exists(subset_filename)
    THEN FreeName(name \o <<"_">> \o IntStr(counter + 1) \o ext,
                  name, ext, counter + 1)
    ELSE subset_filename

OutputName(overwrite) ==
    LET subset_filename == SubsetName(filename)
    IN  IF ~overwrite /\ exists(subset_filename)
        THEN FreeName(subset_filename, SplitextName(subset_filename),
                      SplitextExt(subset_filename), 0)
        ELSE subset_filename

\* the requested countries written in the table's order, not the list's
ExtractRows_TableOrder(countries_req) ==
    << <<first_key>> \o DictGet(data_dict, first_key) >>
        \o [i \in 1..Len(SelectSeq(countries, LAMBDA c : c \in Range(countries_req))) |->
                LET c == SelectSeq(countries, LAMBDA k : k \in Range(countries_req))[i]
                IN  <<c>> \o DictGet(data_dict, c)]

\* the rows handed to writer.writerow, in order
ExtractRows(countries_req) ==
    << <<first_key>> \o DictGet(data_dict, first_key) >>
        \o [i \in 1..Len(countries_req) |->
                <<countries_req[i]>> \o DictGet(data_dict, countries_req[i])]

extract_to_file(countries_req, overwrite) ==
    /\ pc = "loaded"
    /\ Cardinality(DOMAIN fs) < MaxFiles
    /\ \A i \in 1..Len(countries_req) : DictHas(data_dict, countries_req[i])
    /\ LET out == OutputName(overwrite)
           rows == ExtractRows(countries_req)
       IN  /\ fs' = [n \in DOMAIN fs \cup {out} |->
                        IF n = out THEN WriteRows(rows) ELSE fs[n]]
           /\ last' = [op |-> "extract_to_file",
                       countries_req |-> countries_req,
                       overwrite |-> overwrite,
                       subset_filename |-> out,
                       existed |-> exists(out),
                       rows |-> rows]
    /\ UNCHANGED <<pc, object>>

(***************************************************************************)
(* verify_structure.                                                       *)
(***************************************************************************)
AllInt(row) == \A j \in 1..Len(row) : IntOk(row[j])
AllFloat(row) == \A j \in 1..Len(row) : FloatOk(row[j])
\* e[0].translate(str.maketrans("", "", "-' ")).isalpha()
KeyIsAlpha(k) == IsAlpha(DeleteChars(k, {"-", "'", " "}))

\* the alphabetic check applied to the header label too
ItemPasses_CheckLabel(i) ==
    /\ KeyIsAlpha(data_dict[i][1])
    /\ IF i = 1 THEN AllInt(data_dict[i][2]) ELSE AllFloat(data_dict[i][2])

\* the body of the loop for item i of enumerate(self.data_dict.items()):
\* TRUE when the item passes, FALSE when the loop returns False on it
ItemPasses(i) ==
    IF i = 1 THEN AllInt(data_dict[i][2])
    ELSE KeyIsAlpha(data_dict[i][1]) /\ AllFloat(data_dict[i][2])

RECURSIVE VerifyFrom(_)
VerifyFrom(i) ==
    IF i > Len(data_dict) THEN TRUE
    ELSE IF ~ItemPasses(i) THEN FALSE
    ELSE VerifyFrom(i + 1)

verify_structure ==
    /\ pc = "loaded"
    /\ last' = [op |-> "verify_structure", raised |-> "none",
                ret |-> VerifyFrom(1)]
    /\ UNCHANGED <<fs, pc, object>>

(***************************************************************************)
(* Specifications.  Each starts from a filesystem drawn from a bounded     *)
(* family of files and offers the calls main() makes on it, with the typed *)
(* lines drawn from a bounded set.                                         *)
(***************************************************************************)
SourceName == <<"d", ".", "c", "s", "v">>
OneFile(name, text) == [n \in {name} |-> text]

\* main(): AnalysisCSV(AnalysisCSV.get_file(...)), the name typed with or
\* without its extension
GetFile == \E user_inp \in {<<"d">>, SourceName} : get_file(user_inp)

\* the object has just been constructed: main() makes each of its calls once
Fresh == last.op = "__init__"

\* extract_to_file on the table's full country list
ExtractAll == \E overwrite \in BOOLEAN : extract_to_file(countries, overwrite)

\* main(): extract_to_file(get_country(...)), for either overwrite flag
ExtractSelected ==
    /\ last.op = "get_country" /\ last.accepted
    /\ \E overwrite \in BOOLEAN : extract_to_file(last.ret, overwrite)

\* SpecCsv: any short text as the source file; load it and extract all of it
CsvAlphabet == {"1", "A", ",", "\"", "\n"}
InitCsv == \E t \in SeqsUpTo(CsvAlphabet, MaxText) : InitWith(OneFile(SourceName, t))
ExtractAllOnce == Fresh /\ ExtractAll
NextCsv == GetFile \/ init \/ ExtractAllOnce
SpecCsv == InitCsv /\ [][NextCsv]_vars

\* a table written as a CSV file: the header row, then the country rows
TableFile(header, rows) == OneFile(SourceName, WriteRows(<<header>> \o rows))

\* the sequences over S of length 1..n
SeqsFrom1(S, n) == SeqsUpTo(S, n) \ {<<>>}

\* SpecSelect: tables over a few stored country names, with the header
\* labelled "A"; country lines typed as comma-separated raw names
StoredKeys == {<<"A", "a">>, <<"A", "A">>, <<"A", " ", "a", "n", "d", " ", "A">>,
               <<"d", "'", "A">>}
RawNames == {<<>>, <<" ", "A">>, <<"a", "a">>, <<"A", "A">>,
             <<"a", " ", "A", "N", "D", " ", "a">>, <<"D", "'", "a">>}
RECURSIVE JoinNames(_)
JoinNames(ns) == IF Len(ns) = 1 THEN ns[1]
                 ELSE ns[1] \o <<",">> \o JoinNames(Tail(ns))
TypedLines == {JoinNames(ns) : ns \in SeqsFrom1(RawNames, MaxItems)}

KeyRows(ks) == [i \in 1..Len(ks) |-> <<ks[i], <<"1", ",", "5">>, IntStr(i)>>]
InitSelect == \E ks \in SeqsFrom1(StoredKeys, MaxRows) :
                  InitWith(TableFile(<< <<"A">>, <<"1">>, <<"2">> >>, KeyRows(ks)))
GetCountry ==
    /\ Fresh
    /\ \E user_inp \in TypedLines, num \in 1..MaxNum, strict \in BOOLEAN :
           get_country(user_inp, num, strict)
NextSelect == GetFile \/ init \/ GetCountry
SpecSelect == InitSelect /\ [][NextSelect]_vars

\* SpecExtract: the same tables; main()'s last call,
\* extract_to_file(get_country(..., 3, False))
GetCountryToExtract ==
    /\ Fresh
    /\ \E user_inp \in TypedLines : get_country(user_inp, 3, FALSE)
NextExtract == GetFile \/ init \/ GetCountryToExtract \/ ExtractSelected
SpecExtract == InitSelect /\ [][NextExtract]_vars

\* SpecFiles: the source file under a typed name, and beside it any of the
\* names an extraction from it may probe
FilePieces == {<<"d">>, Csv, <<".", "C", "S", "V">>}
TypedNames == {Concat(ps) : ps \in SeqsUpTo(FilePieces, MaxNamePieces)}
ProbedNames(src) ==
    LET s0 == SubsetName(src)
    IN  {s0} \cup {SplitextName(s0) \o <<"_">> \o IntStr(k) \o SplitextExt(s0) :
                      k \in 1..MaxSuffix}
SourceText == WriteRows(<< << <<"L">>, <<"1">> >>, << <<"A">>, <<"2">> >> >>)
InitFiles ==
    \E typed \in TypedNames :
        \E present \in SUBSET (ProbedNames(WithCsvExtension(typed))
                                   \ {WithCsvExtension(typed)}) :
            InitWith([n \in {WithCsvExtension(typed)} \cup present |->
                         IF n = WithCsvExtension(typed) THEN SourceText ELSE <<>>])
GetTypedFile == \E user_inp \in TypedNames : get_file(user_inp)
NextFiles == GetTypedFile \/ init \/ ExtractAll
SpecFiles == InitFiles /\ [][NextFiles]_vars

\* SpecYear: headers of a few year cells over one country row; main()'s
\* analyze_year(get_year(...))
YearCells == {<<"1">>, <<"2">>, <<"3">>, <<"4">>, <<"x">>}
TypedYears == {<<"0">>, <<"1">>, <<"2">>, <<"3">>, <<"4">>, <<"5">>,
               <<" ", "2">>, <<"x">>}
InitYear == \E ys \in SeqsFrom1(YearCells, MaxCols) :
                InitWith(TableFile(<< <<"L">> >> \o ys,
                                   << << <<"A">> >> \o [i \in 1..Len(ys) |-> IntStr(i)] >>))
GetYear == Fresh /\ \E user_inp \in TypedYears : get_year(user_inp)
NextYear == GetFile \/ init \/ GetYear \/ analyze_year
SpecYear == InitYear /\ [][NextYear]_vars

\* SpecAnalyze: two year columns over country rows whose names may repeat
\* or equal the header label, with values that tie as floats
AnalyzeKeys == {<<"A">>, <<"B">>, <<"C">>}
ValueCells == {<<"1">>, <<"1", ".", "0">>, <<"2">>}
AnalyzeRows == {<<k, <<"9">>, v>> : k \in AnalyzeKeys, v \in ValueCells}
                   \cup {<< <<"L">>, <<"1">>, <<"2">> >>}
InitAnalyze == \E rows \in SeqsFrom1(AnalyzeRows, MaxCountries) :
                   InitWith(TableFile(<< <<"L">>, <<"1">>, <<"2">> >>, rows))
GetHeaderYear ==
    /\ Fresh
    /\ \E user_inp \in {<<"1">>, <<"2">>, <<"3">>} : get_year(user_inp)
NextAnalyze == GetFile \/ init \/ GetHeaderYear \/ analyze_year
SpecAnalyze == InitAnalyze /\ [][NextAnalyze]_vars

\* SpecVerify: tables whose header label is not alphabetic and whose cells
\* and names may or may not be of the expected types
HeaderCells == {<<"1">>, <<"1", ".", "5">>}
VerifyKeys == {<<"A", "-", "a">>, <<"B", " ", "b">>, <<"1">>, <<"'">>}
VerifyCells == {<<"1", ".", "5">>, <<"x">>}
InitVerify ==
    \E n \in 1..VerifyCols :
        \E ys \in [1..n -> HeaderCells] :
            \E rows \in SeqsFrom1({<<k>> \o vs : k \in VerifyKeys,
                                                 vs \in [1..n -> VerifyCells]},
                                  MaxRows) :
                InitWith(TableFile(<< <<"1">> >> \o ys, rows))
Verify == Fresh /\ verify_structure
NextVerify == GetFile \/ init \/ Verify
SpecVerify == InitVerify /\ [][NextVerify]_vars

(***************************************************************************)
(* The claims.                                                             *)
(***************************************************************************)
\* the keys of the table other than the header label: its country set
CountrySet == {k \in Range(DictKeys(data_dict)) : k # first_key}
\* the stored Series of a country
Series(k) == DictGet(data_dict, k)

\* C1: get_country accepts a typed line if and only if (1) the number of
\* names equals num in strict mode, or lies in 1..num otherwise, (2) the
\* normalized names are pairwise distinct and (3) each is in the table's
\* country set, which excludes the header label; on acceptance it returns
\* the normalized names in the order typed.
C1_SelectCountriesAcceptsIff ==
    last.op = "get_country" =>
        LET items == Split(last.user_inp, ",")
            names == [i \in 1..Len(items) |-> Normalize(items[i])]
            countOk == IF last.strict THEN Len(items) = last.num
                       ELSE Len(items) \in 1..last.num
            distinct == \A i, j \in 1..Len(names) : i # j => names[i] # names[j]
            known == \A i \in 1..Len(names) : names[i] \in CountrySet
        IN  /\ last.accepted <=> (countOk /\ distinct /\ known)
            /\ last.accepted => last.ret = names

\* C1 witness: two names are accepted, typed otherwise than they are stored
C1_Witness ==
    /\ last.op = "get_country" /\ last.accepted
    /\ Len(last.ret) = 2
    /\ last.user_inp # JoinNames(last.ret)

\* C9: every country key of a loaded table is in normalized form, so that
\* typing a stored key to get_country with num 1 in strict mode is accepted
\* and returns exactly that key.
C9_StoredKeysAreNormalized ==
    pc = "loaded" =>
        \A i \in 1..Len(countries) :
            /\ Normalize(countries[i]) = countries[i]
            /\ (/\ last.op = "get_country"
                /\ last.user_inp = countries[i]
                /\ last.num = 1 /\ last.strict)
                   => (last.accepted /\ last.ret = <<countries[i]>>)

\* C2: an extraction from <base>.csv without overwrite writes to
\* <base>_subset.csv when that name is unused, and otherwise to
\* <base>_subset_N.csv for the smallest N >= 1 whose name is unused, so
\* that it never writes to a file that existed before it.
C2_FirstFreeSubsetName ==
    (last.op = "extract_to_file" /\ ~last.overwrite /\ EndsWith(filename, Csv)) =>
        LET base == SubSeq(filename, 1, Len(filename) - Len(Csv))
            before == DOMAIN fs \ {last.subset_filename}
            Named(n) == IF n = 0 THEN base \o SubsetCsv
                        ELSE base \o <<"_", "s", "u", "b", "s", "e", "t", "_">>
                                  \o IntStr(n) \o Csv
        IN  /\ ~last.existed
            /\ \E n \in 0..Cardinality(DOMAIN fs) :
                   /\ last.subset_filename = Named(n)
                   /\ \A m \in 0..(n - 1) : Named(m) \in before

\* C10: for either overwrite flag, extract_to_file never writes to the path
\* of the source file the table was loaded from.
C10_NeverWritesTheSource ==
    last.op = "extract_to_file" => last.subset_filename # filename

\* the header cells are integers in non-decreasing order
HeaderIsSorted ==
    /\ first_value # <<>>
    /\ \A j \in 1..Len(first_value) : IntOk(first_value[j])
    /\ \A j \in 1..(Len(first_value) - 1) :
           IntValue(first_value[j]) <= IntValue(first_value[j + 1])

\* C3: for a loaded table whose header is non-decreasing, a typed year is
\* rejected as out of range if and only if it lies outside
\* [min(header), max(header)], and analyze_year of every accepted year
\* yields a result rather than failing.
C3_InRangeYearIsAnalyzed ==
    (pc = "loaded" /\ HeaderIsSorted) =>
        /\ (last.op = "get_year" /\ IntOk(last.user_inp)) =>
               (last.accepted <=>
                   \E lo, hi \in {IntValue(first_value[j]) : j \in 1..Len(first_value)} :
                       /\ \A j \in 1..Len(first_value) :
                              lo <= IntValue(first_value[j]) /\ IntValue(first_value[j]) <= hi
                       /\ lo <= IntValue(last.user_inp) /\ IntValue(last.user_inp) <= hi)
        /\ last.op = "analyze_year" => last.raised = "none"

\* C4: loading rejects a file in which a data row has a number of cells
\* different from the header row, or in which no row follows the header, so
\* that every country's Series of a loaded table has as many values as the
\* header has years.
C4_LoadRejectsRaggedRows ==
    pc = "loaded" =>
        LET rows == ReadCsv(fs[filename])
        IN  /\ Len(rows) >= 2
            /\ \A i \in 1..Len(rows) : Len(rows[i]) = Len(rows[1])
            /\ \A i \in 1..Len(countries) :
                   Len(Series(countries[i])) = Len(first_value)

\* the value of the i-th country in column col, and the earliest country
\* holding a value there
ColumnValue(i, col) == FloatValue(Series(countries[i])[col])
EarliestWith(v, col) ==
    CHOOSE i \in 1..Len(countries) :
        /\ ColumnValue(i, col) = v
        /\ \A j \in 1..(i - 1) : ColumnValue(j, col) # v

\* C5: analyze_year reports as minimum (maximum) country the earliest
\* inserted country whose value in the year's column equals the column
\* minimum (maximum); the header row is never a candidate and the name
\* reported is that of the country whose value was compared.
C5_EarliestExtremeCountry ==
    (last.op = "analyze_year" /\ last.raised = "none") =>
        LET col == CHOOSE c \in 1..Len(first_value) :
                       /\ first_value[c] = IntStr(last.year)
                       /\ \A b \in 1..(c - 1) : first_value[b] # IntStr(last.year)
            column == {ColumnValue(i, col) : i \in 1..Len(countries)}
            lowest == CHOOSE v \in column : \A w \in column : v <= w
            highest == CHOOSE v \in column : \A w \in column : v >= w
        IN  /\ last.min_country = countries[EarliestWith(lowest, col)]
            /\ last.max_country = countries[EarliestWith(highest, col)]
            /\ last.min_country # first_key /\ last.max_country # first_key

\* C5 witness: three countries, the two lowest tie on values written
\* differently, and the first of them is reported
C5_Witness ==
    /\ last.op = "analyze_year" /\ last.raised = "none"
    /\ Len(countries) = 3
    /\ last.min_country = countries[1]
    /\ last.max_country = countries[2]
    /\ Series(countries[1])[last.year_index] # Series(countries[3])[last.year_index]
    /\ FloatValue(Series(countries[1])[last.year_index])
           = FloatValue(Series(countries[3])[last.year_index])

C7_ExtractWritesHeaderThenCountries ==
    last.op = "extract_to_file" =>
        LET written == ReadCsv(fs[last.subset_filename])
            req == last.countries_req
        IN  /\ Len(written) = 1 + Len(req)
            /\ written[1] = <<first_key>> \o first_value
            /\ \A i \in 1..Len(req) : written[i + 1] = <<req[i]>> \o Series(req[i])

\* C7 witness: two countries were extracted in an order other than the
\* table's
C7_Witness ==
    /\ last.op = "extract_to_file"
    /\ Len(last.countries_req) = 2
    /\ Len(countries) = 2
    /\ last.countries_req # countries

\* C8: loading a file, extracting the table's full country list and loading
\* the written file yields the same header label, header years, country
\* keys in the same order and Series as the first load.
C8_RoundTrip ==
    (last.op = "extract_to_file" /\ last.countries_req = countries) =>
        /\ ~LoadRaises(ReadCsv(fs[last.subset_filename]))
        /\ LoadedTable(fs[last.subset_filename])
               = [data_dict |-> data_dict, countries |-> countries,
                  first_key |-> first_key, first_value |-> first_value]

\* C8 witness: a well-formed file (integer years, an alphabetic country,
\* numeric values) was loaded and extracted in full
C8_Witness ==
    /\ last.op = "extract_to_file" /\ last.countries_req = countries
    /\ Len(countries) >= 1
    /\ first_value # <<>>
    /\ \A i \in 1..Len(countries) : Len(Series(countries[i])) = Len(first_value)
    /\ VerifyFrom(1)

====
